---- MODULE Spec2Model ----
(***************************************************************************)
(* The event dispatch engine of servo.connector.Connector: dispatch_event  *)
(* (before / on / after protocol over a group of connectors) and           *)
(* run_event_handlers (per-connector handler execution with the task       *)
(* scoped execution context).                                              *)
(*                                                                         *)
(* A coroutine runs atomically between suspension points.  Every handler   *)
(* invocation is split in two steps (invoked, finished) so that a handler  *)
(* may suspend while other tasks run; a handler that does not suspend is   *)
(* the interleaving in which nothing runs in between.                      *)
(***************************************************************************)
EXTENDS Integers, Sequences, FiniteSets, TLC

\* Bound: how many handlers a connector type declares per preposition.
MaxHandlers == 2

\* self.__connectors__ of the dispatching connector: the group, in order.
Group == <<"A", "B", "C">>

Connectors == {Group[i] : i \in 1..Len(Group)}

\* Preposition.BEFORE | Preposition.ON | Preposition.AFTER
AllPrepositions == {"before", "on", "after"}

PrepositionOrder == <<"before", "on", "after">>

\* Python's None, and a Python list, as tagged values.
None == [tag |-> "None"]

ListOf(s) == [tag |-> "list", items |-> s]

\* Python truthiness of a value that is None or a list (`if results:`).
Truthy(v) == v.tag = "list" /\ v.items # <<>>

\* ---------------------------------------------------------------------
\* Keyword arguments: a dict is a set of <<key, value>> pairs with
\* distinct keys.

Keys(d) == {p[1] : p \in d}

\* dict.update: entries of `other` replace entries of `d` with the same key
DictUpdate(d, other) == {p \in d : p[1] \notin Keys(other)} \cup other

\* ---------------------------------------------------------------------
\* Handler registries (cls.__event_handlers__) of the connector types the
\* group is built from.

\* An EventHandler: the event and preposition it is registered for, the
\* keyword arguments given at its declaration, and its callable, which is
\* code that returns a value ("returns") or raises an EventError ("raises")
\* unless it raises a CancelEventError.
EventHandler(e, p, kw, code) ==
    [event |-> e, preposition |-> p, kwargs |-> kw, handler |-> code]

DeclaredKwargs == {<<"k1", "declared">>}

\* The j-th round of declarations of a type: one handler for "measure" per
\* preposition of S; the handlers of even rounds raise an EventError.
Round(S, j) ==
    LET ps == SelectSeq(PrepositionOrder, LAMBDA p : p \in S)
    IN  [i \in 1..Len(ps) |->
           EventHandler("measure", ps[i], DeclaredKwargs,
                        IF j % 2 = 0 THEN "raises" ELSE "returns")]

RECURSIVE Rounds(_, _)
Rounds(S, n) == IF n = 0 THEN <<>> ELSE Rounds(S, n - 1) \o Round(S, n)

\* The registries the connectors' types may have: no handler at all, or a
\* handler for another event followed by MaxHandlers handlers per
\* preposition of S.
TypeShapes == {AllPrepositions, {"before", "after"}}

RegistryChoices ==
    {<<>>} \cup
    {<<EventHandler("adjust", "on", {}, "returns")>> \o Rounds(S, MaxHandlers) :
        S \in TypeShapes}

\* What the caller of dispatch_event may pass as **kwargs.
CallerKwargs == {{}, {<<"k1", "caller">>, <<"k2", "caller">>}}

\* What a handler invocation may end with: what its code does (a return
\* value or a recoverable EventError), or a CancelEventError.
Outcomes == {"completes", "CancelEventError"}

VARIABLES
    registry,           \* connector -> its type's __event_handlers__
    pc,                 \* where the dispatch_event coroutine is
    call,               \* the arguments of the dispatch_event call
    di,                 \* index of `connector` in the sequential loops
    results,            \* dispatch_event's local `results`
    retval,             \* what dispatch_event returned
    rh,                 \* connector -> frame of its run_event_handlers call
    connector_context,  \* _connector_context_var, per context
    event_context,      \* _event_context_var, per context
    invoked,            \* history: handler invocations started so far
    overtaken,          \* history: a task finished before an earlier one
    caller_context,     \* the context dispatch_event was called in
    classes,            \* defined connector types: bases and registry list
    heap,               \* the __event_handlers__ list objects, by identity
    connector_subclasses,   \* _connector_subclasses
    event_bus,          \* _connector_event_bus: instance -> its connectors
    resolved            \* the last _connector_class_from_string call

\* the state of the type definitions and of the instances
typeVars == <<classes, heap, connector_subclasses, event_bus, resolved>>

vars == <<registry, pc, call, di, results, retval, rh, connector_context,
          event_context, invoked, overtaken, caller_context, typeVars>>

\* ---------------------------------------------------------------------
\* Connector.get_event_handlers: the registry entries matching event and
\* preposition, in registry order (as indexes into the registry).

RECURSIVE FilterHandlers(_, _, _, _)
FilterHandlers(reg, event, preposition, i) ==
    IF i > Len(reg) THEN <<>>
    ELSE (IF reg[i].event = event /\ reg[i].preposition = preposition
          THEN <<i>> ELSE <<>>)
         \o FilterHandlers(reg, event, preposition, i + 1)

GetEventHandlersAnyPreposition(c, event, preposition) ==
    FilterHandlers([i \in 1..Len(registry[c]) |->
                      [registry[c][i] EXCEPT !.preposition = preposition]],
                   event, preposition, 1)

GetEventHandlers(c, event, preposition) ==
    FilterHandlers(registry[c], event, preposition, 1)

\* ---------------------------------------------------------------------
\* Execution context.  asyncio.gather wraps each coroutine in a task, and a
\* task runs in its own copy of the creating context; the coroutines the
\* dispatcher awaits directly run in the dispatcher's context ("main").

Tasks == {"main"} \cup Connectors

CtxSlotShared(task) == "main"

CtxSlot(task) == task

NoEvent == [tag |-> "None"]

EventContext(e, p) == [tag |-> "EventContext", event |-> e, preposition |-> p]

\* _connector_context_var.get() and Connector.event_context, read in `task`
CurrentConnector(task) == connector_context[CtxSlot(task)]

CurrentEventContext(task) == event_context[CtxSlot(task)]

\* ---------------------------------------------------------------------
\* run_event_handlers.  A frame holds the locals of one call: `args` are the
\* positional arguments passed on to the handlers (*args), `hs` the
\* event_handlers (registry indexes), `idx` the handler being run, `passed`
\* the keyword arguments it was called with, prev_* the context tokens.

EventResult(c, e, p, h, v) ==
    [connector |-> c, event |-> e, preposition |-> p, handler |-> h, value |-> v]

IdleFrame ==
    [pc |-> "idle", task |-> "main", preposition |-> "on", args |-> <<>>,
     hs |-> <<>>, idx |-> 0, results |-> <<>>, passed |-> {},
     prev_connector |-> "None", prev_event |-> NoEvent,
     ret |-> None, exc |-> "none", result |-> None]

\* handler_kwargs = event_handler.kwargs.copy(); handler_kwargs.update(kwargs)
\* (computed for every handler, and never passed to it)
HandlerKwargs(handler, kwargs) == DictUpdate(handler.kwargs, kwargs)

\* The keyword arguments a handler is called with:
\*     value = event_handler.handler(self, *args, **kwargs)
HandlerCallKwargsDefaultsWin(handler, kwargs) == DictUpdate(kwargs, handler.kwargs)

HandlerCallKwargs(handler, kwargs) == kwargs

\* The frame once run_event_handlers has run up to its first suspension:
\* returned None when there is no handler, else inside the first handler.
Entered(c, task, preposition, args) ==
    LET hs == GetEventHandlers(c, call.event, preposition)
        base == [IdleFrame EXCEPT !.task = task, !.preposition = preposition,
                                  !.args = args, !.hs = hs]
    IN  IF Len(hs) = 0
        THEN [base EXCEPT !.pc = "done", !.ret = None]
        ELSE [base EXCEPT
                !.pc = "handler", !.idx = 1,
                !.passed = HandlerCallKwargs(registry[c][hs[1]], call.kwargs),
                !.prev_connector = connector_context[CtxSlot(task)],
                !.prev_event = event_context[CtxSlot(task)]]

\* run_event_handlers is entered for connector c in `task`: the frame, the
\* context variables set (lines 544-545) and the first handler invoked.
Enter(c, task, preposition, args) ==
    LET f == Entered(c, task, preposition, args)
    IN  /\ rh' = [rh EXCEPT ![c] = f]
        /\ IF f.pc = "handler"
           THEN /\ connector_context' =
                     [connector_context EXCEPT ![CtxSlot(task)] = c]
                /\ event_context' =
                     [event_context EXCEPT ![CtxSlot(task)] =
                         EventContext(call.event, preposition)]
                /\ invoked' = invoked \cup {<<c, preposition, f.hs[1]>>}
           ELSE UNCHANGED <<connector_context, event_context, invoked>>

\* finally: reset both context variables to the values the tokens hold
ResetContextToNone(f) ==
    /\ connector_context' =
         [connector_context EXCEPT ![CtxSlot(f.task)] = "None"]
    /\ event_context' =
         [event_context EXCEPT ![CtxSlot(f.task)] = NoEvent]

ResetContext(f) ==
    /\ connector_context' =
         [connector_context EXCEPT ![CtxSlot(f.task)] = f.prev_connector]
    /\ event_context' =
         [event_context EXCEPT ![CtxSlot(f.task)] = f.prev_event]

\* c.name of a connector.  The connectors of the group are named after
\* themselves; "A2" is a connector outside the group whose name is "A".
Name(c) == IF c = "A2" THEN "A" ELSE c

\* if exclude:
\*     excluded_names = list(map(lambda c: c.name, exclude))
\*     connectors = list(filter(lambda c: c.name not in excluded_names, connectors))
ExcludeByIdentity(connectors, exclude) ==
    IF Truthy(exclude)
    THEN SelectSeq(connectors,
                   LAMBDA c : \A i \in 1..Len(exclude.items) : exclude.items[i] # c)
    ELSE connectors

Exclude(connectors, exclude) ==
    IF Truthy(exclude)
    THEN SelectSeq(connectors,
                   LAMBDA c : Name(c) \notin
                       {Name(exclude.items[i]) : i \in 1..Len(exclude.items)})
    ELSE connectors

\* connectors = include if include is not None else self.__connectors__
Included(include) == IF include # None THEN include.items ELSE Group

\* the candidates of the dispatch in progress
Candidates == Exclude(Included(call.include), call.exclude)

\* the arguments of a dispatch_event / broadcast_event call
CallArgs(via, event, first, include, exclude, prepositions, kwargs) ==
    [via |-> via, event |-> event, first |-> first, include |-> include,
     exclude |-> exclude, prepositions |-> prepositions, kwargs |-> kwargs]

\* A task of the On gather finished (returned or raised) while a task of an
\* earlier connector of the group is still running.
Overtakes(c) ==
    /\ rh[c].task # "main"
    /\ rh[c].preposition = "on"
    /\ \E i, j \in 1..Len(Candidates) :
          /\ i < j
          /\ Candidates[j] = c
          /\ rh[Candidates[i]].pc \in {"ready", "handler"}

\* if preposition != Preposition.BEFORE: raise TypeError(...) from error
MayCancelAnywhere(preposition) == TRUE

MayCancel(preposition) == preposition = "before"

\* The value of a handler's EventResult: what the handler returned, or the
\* EventError it raised (except EventError as error: value = error).
HandlerValueErrorLost(handler) == "value"

HandlerValue(handler) ==
    IF handler.handler = "raises" THEN "EventError" ELSE "value"

\* The handler connector c is running finishes with `outcome`.
HandlerFinish(c, outcome) ==
    LET f == rh[c]
        h == f.hs[f.idx]
        p == f.preposition
    IN
    /\ f.pc = "handler"
    /\ outcome \in Outcomes
    /\ IF outcome = "CancelEventError"
       THEN \* except CancelEventError
            /\ IF ~MayCancel(p)
               THEN rh' = [rh EXCEPT ![c] =
                             [f EXCEPT !.pc = "raised", !.exc = "TypeError"]]
               ELSE rh' = [rh EXCEPT ![c] =
                             [f EXCEPT !.pc = "raised",
                                       !.exc = "CancelEventError",
                                       !.result = EventResult(c, call.event, p, h,
                                                              "CancelEventError")]]
            /\ ResetContext(f)
            /\ overtaken' = (overtaken \/ Overtakes(c))
            /\ UNCHANGED invoked
       ELSE LET value == HandlerValue(registry[c][h])
                res == Append(f.results, EventResult(c, call.event, p, h, value))
            IN  IF f.idx < Len(f.hs)
                THEN \* the next handler is invoked
                     /\ rh' = [rh EXCEPT ![c] =
                                 [f EXCEPT !.results = res, !.idx = f.idx + 1,
                                           !.passed = HandlerCallKwargs(
                                               registry[c][f.hs[f.idx + 1]],
                                               call.kwargs)]]
                     /\ invoked' = invoked \cup {<<c, p, f.hs[f.idx + 1]>>}
                     /\ UNCHANGED <<connector_context, event_context, overtaken>>
                ELSE \* finally, return results
                     /\ rh' = [rh EXCEPT ![c] =
                                 [f EXCEPT !.results = res, !.pc = "done",
                                           !.ret = ListOf(res)]]
                     /\ ResetContext(f)
                     /\ overtaken' = (overtaken \/ Overtakes(c))
                     /\ UNCHANGED invoked
    /\ UNCHANGED <<typeVars, caller_context, registry, pc, call, di, results, retval>>

\* ---------------------------------------------------------------------
\* dispatch_event

\* dispatch_event is called: results = [], the candidates are computed.
Dispatch(event, first, include, exclude, prepositions, kwargs) ==
    /\ pc = "idle"
    /\ call' = CallArgs("dispatch_event", event, first, include, exclude,
                        prepositions, kwargs)
    /\ results' = ListOf(<<>>)
    /\ pc' = "before"
    /\ di' = 1
    /\ UNCHANGED <<typeVars, caller_context, registry, retval, rh, connector_context, event_context,
                   invoked, overtaken>>

\* if prepositions & Preposition.BEFORE / ON / AFTER
WantsAlways(preposition) == TRUE

Wants(preposition) == preposition \in call.prepositions

\* `await connector.run_event_handlers(...)` in a loop: the loop goes on
\* when the call has returned
AwaitedEarly(f) == f.pc \in {"done", "handler"}

Awaited(f) == f.pc = "done"

\* if prepositions & Preposition.BEFORE: false
BeforeSkip ==
    /\ pc = "before"
    /\ ~Wants("before")
    /\ pc' = "on"
    /\ UNCHANGED <<typeVars, caller_context, registry, call, di, results, retval, rh, connector_context,
                   event_context, invoked, overtaken>>

\* for connector in connectors: await connector.run_event_handlers(BEFORE)
BeforeCall ==
    /\ pc = "before"
    /\ Wants("before")
    /\ di <= Len(Candidates)
    /\ rh[Candidates[di]].pc = "idle"
    /\ Enter(Candidates[di], "main", "before", <<>>)
    /\ UNCHANGED <<typeVars, caller_context, registry, pc, call, di, results, retval, overtaken>>

\* run_event_handlers returned: the loop goes on with the next connector
BeforeNext ==
    /\ pc = "before"
    /\ di <= Len(Candidates)
    /\ Awaited(rh[Candidates[di]])
    /\ rh' = [rh EXCEPT ![Candidates[di]] = IdleFrame]
    /\ di' = di + 1
    /\ UNCHANGED <<typeVars, caller_context, registry, pc, call, results, retval, connector_context,
                   event_context, invoked, overtaken>>

\* The value dispatch_event returns on cancellation: return [error.result]
CancelledReturnAll(f) == ListOf(f.results \o <<f.result>>)

CancelledReturn(f) == ListOf(<<f.result>>)

\* where dispatch_event is after `return [error.result]`
PcAfterCancelGoesOn == "on"

PcAfterCancel == "returned"

\* except CancelEventError as error: return [error.result]
BeforeCancelled ==
    /\ pc = "before"
    /\ di <= Len(Candidates)
    /\ rh[Candidates[di]].pc = "raised"
    /\ rh[Candidates[di]].exc = "CancelEventError"
    /\ retval' = CancelledReturn(rh[Candidates[di]])
    /\ pc' = PcAfterCancel
    /\ rh' = [rh EXCEPT ![Candidates[di]] = IdleFrame]
    /\ UNCHANGED <<typeVars, caller_context, registry, call, di, results, connector_context,
                   event_context, invoked, overtaken>>

\* the Before loop is exhausted
BeforeDone ==
    /\ pc = "before"
    /\ Wants("before")
    /\ di > Len(Candidates)
    /\ pc' = "on"
    /\ di' = 1
    /\ UNCHANGED <<typeVars, caller_context, registry, call, results, retval, rh, connector_context,
                   event_context, invoked, overtaken>>

\* return results[0] if results else None   (first)
\* return results                            (otherwise)
ReturnValueLast(first, res) ==
    IF first
    THEN (IF Truthy(res) THEN [tag |-> "result", r |-> res.items[Len(res.items)]]
          ELSE None)
    ELSE res

ReturnValueOrNone(first, res) ==
    IF first
    THEN (IF Truthy(res) THEN [tag |-> "result", r |-> res.items[1]] ELSE None)
    ELSE (IF Truthy(res) THEN res ELSE None)

ReturnValue(first, res) ==
    IF first
    THEN (IF Truthy(res) THEN [tag |-> "result", r |-> res.items[1]] ELSE None)
    ELSE res

\* if prepositions & Preposition.ON: false
OnSkip ==
    /\ pc = "on"
    /\ ~Wants("on")
    /\ pc' = "after"
    /\ UNCHANGED <<typeVars, caller_context, registry, call, di, results, retval, rh, connector_context,
                   event_context, invoked, overtaken>>

\* first: results = await connector.run_event_handlers(ON)
OnFirstCall ==
    /\ pc = "on"
    /\ Wants("on")
    /\ call.first
    /\ di <= Len(Candidates)
    /\ rh[Candidates[di]].pc = "idle"
    /\ Enter(Candidates[di], "main", "on", <<>>)
    /\ UNCHANGED <<typeVars, caller_context, registry, pc, call, di, results, retval, overtaken>>

\* if results: break
FirstRespondedNever(res) == FALSE

FirstResponded(res) == Truthy(res)

OnFirstNext ==
    /\ pc = "on"
    /\ call.first
    /\ di <= Len(Candidates)
    /\ rh[Candidates[di]].pc = "done"
    /\ results' = rh[Candidates[di]].ret
    /\ rh' = [rh EXCEPT ![Candidates[di]] = IdleFrame]
    /\ IF FirstResponded(rh[Candidates[di]].ret)
       THEN pc' = "after" /\ di' = 1
       ELSE pc' = pc /\ di' = di + 1
    /\ UNCHANGED <<typeVars, caller_context, registry, call, retval, connector_context, event_context,
                   invoked, overtaken>>

\* the first-responder loop is exhausted without a response
OnFirstExhausted ==
    /\ pc = "on"
    /\ Wants("on")
    /\ call.first
    /\ di > Len(Candidates)
    /\ pc' = "after"
    /\ di' = 1
    /\ UNCHANGED <<typeVars, caller_context, registry, call, results, retval, rh, connector_context,
                   event_context, invoked, overtaken>>

\* a TypeError raised by run_event_handlers propagates out of dispatch_event
OnFirstRaised ==
    /\ pc = "on"
    /\ call.first
    /\ di <= Len(Candidates)
    /\ rh[Candidates[di]].pc = "raised"
    /\ pc' = "raised"
    /\ UNCHANGED <<typeVars, caller_context, registry, call, di, results, retval, rh, connector_context,
                   event_context, invoked, overtaken>>

\* asyncio.gather(*map(lambda c: c.run_event_handlers(...), connectors)):
\* one task per candidate, each with a copy of the current context.
StartGather(preposition, args) ==
    /\ rh' = [c \in Connectors |->
                IF /\ \E i \in 1..Len(Candidates) : Candidates[i] = c
                   /\ rh[c].pc = "idle"
                THEN [IdleFrame EXCEPT !.pc = "ready", !.task = c,
                                       !.preposition = preposition, !.args = args]
                ELSE rh[c]]
    /\ connector_context' =
         [t \in Tasks |->
            IF t \in Connectors /\ CtxSlot(t) = t
            THEN connector_context[CtxSlot("main")] ELSE connector_context[t]]
    /\ event_context' =
         [t \in Tasks |->
            IF t \in Connectors /\ CtxSlot(t) = t
            THEN event_context[CtxSlot("main")] ELSE event_context[t]]

\* `await group`: the gather is done when every task has returned
GatherDoneAny(preposition) ==
    \E i \in 1..Len(Candidates) :
        rh[Candidates[i]].pc = "done" /\ rh[Candidates[i]].preposition = preposition

GatherDone(preposition) ==
    \A i \in 1..Len(Candidates) :
        rh[Candidates[i]].pc = "done" /\ rh[Candidates[i]].preposition = preposition

\* the gather raises as soon as one of its tasks has raised
GatherFailed(preposition) ==
    \E i \in 1..Len(Candidates) :
        rh[Candidates[i]].pc = "raised" /\ rh[Candidates[i]].preposition = preposition

\* results = list(filter(lambda r: r is not None, results))
\* if results: results = reduce(lambda x, y: x+y, results)
RECURSIVE ReduceReversed(_, _)
ReduceReversed(rets, i) ==
    IF i > Len(rets) THEN <<>>
    ELSE ReduceReversed(rets, i + 1)
         \o (IF rets[i].tag = "None" THEN <<>> ELSE rets[i].items)

RECURSIVE Reduce(_, _)
Reduce(rets, i) ==
    IF i > Len(rets) THEN <<>>
    ELSE (IF rets[i].tag = "None" THEN <<>> ELSE rets[i].items)
         \o Reduce(rets, i + 1)

\* what `await group` evaluates to: the tasks' results in argument order
GatherResult == [i \in 1..Len(Candidates) |-> rh[Candidates[i]].ret]

OnGather ==
    /\ pc = "on"
    /\ Wants("on")
    /\ ~call.first
    /\ StartGather("on", <<>>)
    /\ pc' = "on_wait"
    /\ UNCHANGED <<typeVars, caller_context, registry, call, di, results, retval, invoked, overtaken>>

OnGathered ==
    /\ pc = "on_wait"
    /\ GatherDone("on")
    /\ results' = ListOf(Reduce(GatherResult, 1))
    /\ rh' = [c \in Connectors |-> IF rh[c].pc = "done" THEN IdleFrame ELSE rh[c]]
    /\ pc' = "after"
    /\ UNCHANGED <<typeVars, caller_context, registry, call, di, retval, connector_context, event_context,
                   invoked, overtaken>>

\* a task of the gather raised: the exception propagates to the caller of
\* dispatch_event; the sibling tasks are not cancelled.
GatherRaised ==
    /\ \/ pc = "on_wait" /\ GatherFailed("on")
       \/ pc = "after_wait" /\ GatherFailed("after")
    /\ pc' = "raised"
    /\ UNCHANGED <<typeVars, caller_context, registry, call, di, results, retval, rh, connector_context,
                   event_context, invoked, overtaken>>

\* if prepositions & Preposition.AFTER: false
AfterSkip ==
    /\ pc = "after"
    /\ ~Wants("after")
    /\ retval' = ReturnValue(call.first, results)
    /\ pc' = "returned"
    /\ UNCHANGED <<typeVars, caller_context, registry, call, di, results, rh, connector_context,
                   event_context, invoked, overtaken>>

\* the positional arguments of the After handlers: (results, *args)
AfterArgsWithoutResults(res) == <<>>

AfterArgs(res) == <<res>>

\* await asyncio.gather(*map(lambda c: c.run_event_handlers(AFTER, results, ...)))
AfterGather ==
    /\ pc = "after"
    /\ Wants("after")
    /\ StartGather("after", AfterArgs(results))
    /\ pc' = "after_wait"
    /\ UNCHANGED <<typeVars, caller_context, registry, call, di, results, retval, invoked, overtaken>>

AfterGathered ==
    /\ pc = "after_wait"
    /\ GatherDone("after")
    /\ retval' = ReturnValue(call.first, results)
    /\ rh' = [c \in Connectors |-> IF rh[c].pc = "done" THEN IdleFrame ELSE rh[c]]
    /\ pc' = "returned"
    /\ UNCHANGED <<typeVars, caller_context, registry, call, di, results, connector_context,
                   event_context, invoked, overtaken>>

\* a task created by gather gets to run: run_event_handlers is entered
TaskStart(c) ==
    /\ rh[c].pc = "ready"
    /\ Enter(c, rh[c].task, rh[c].preposition, rh[c].args)
    /\ UNCHANGED <<typeVars, caller_context, registry, pc, call, di, results, retval, overtaken>>

\* ---------------------------------------------------------------------

NoCall == CallArgs("none", "measure", FALSE, None, None, {}, {})

\* no type is defined and no instance constructed
NoTypes ==
    /\ classes = <<>>
    /\ heap = <<>>
    /\ connector_subclasses = {}
    /\ event_bus = <<>>
    /\ resolved = [input |-> [case |-> "none"], outcome |-> [tag |-> "none"]]

\* dispatch_event is called from outside any handler
NoContext == [connector |-> "None", event |-> NoEvent]

\* no dispatch has been requested; every task would start in the context
\* of the caller
NoDispatch ==
    /\ pc = "idle"
    /\ call = NoCall
    /\ di = 1
    /\ results = ListOf(<<>>)
    /\ retval = None
    /\ rh = [c \in Connectors |-> IdleFrame]
    /\ connector_context = [t \in Tasks |-> caller_context.connector]
    /\ event_context = [t \in Tasks |-> caller_context.event]
    /\ invoked = {}
    /\ overtaken = FALSE

Init ==
    /\ registry \in [Connectors -> RegistryChoices]
    /\ caller_context = NoContext
    /\ NoDispatch
    /\ NoTypes

\* the steps of a dispatch in progress
Step ==
    \/ BeforeSkip
    \/ BeforeCall
    \/ BeforeNext
    \/ BeforeCancelled
    \/ BeforeDone
    \/ OnSkip
    \/ OnFirstCall
    \/ OnFirstNext
    \/ OnFirstExhausted
    \/ OnFirstRaised
    \/ OnGather
    \/ OnGathered
    \/ GatherRaised
    \/ AfterSkip
    \/ AfterGather
    \/ AfterGathered
    \/ \E c \in Connectors : TaskStart(c)
    \/ \E c \in Connectors, o \in Outcomes : HandlerFinish(c, o)

Next ==
    \/ \E first \in BOOLEAN, ps \in SUBSET AllPrepositions, kw \in CallerKwargs :
          Dispatch("measure", first, None, None, ps, kw)
    \/ Step

Spec == Init /\ [][Next]_vars

\* ---------------------------------------------------------------------
\* responds_to_event: handlers = list(filter(lambda handler:
\* handler.event == event, cls.__event_handlers__)); len(handlers) > 0
RespondsToAnyEvent(c, event) == Len(registry[c]) > 0

RespondsToEvent(c, event) ==
    Len(SelectSeq(registry[c], LAMBDA handler : handler.event = event)) > 0

\* ---------------------------------------------------------------------
\* Calls that narrow the candidates, calls made from inside a handler, and
\* broadcast_event.

\* return asyncio.create_task(self.dispatch_event(...)): the task is
\* scheduled and broadcast_event returns it; nothing of dispatch_event has
\* run yet.
Broadcast(event, first, include, exclude, prepositions, kwargs) ==
    /\ pc = "idle"
    /\ call' = CallArgs("broadcast_event", event, first, include, exclude,
                        prepositions, kwargs)
    /\ pc' = "created"
    /\ UNCHANGED <<typeVars, caller_context, registry, di, results, retval, rh,
                   connector_context, event_context, invoked, overtaken>>

\* the event loop runs the task: dispatch_event starts, results = []
BroadcastRun ==
    /\ pc = "created"
    /\ results' = ListOf(<<>>)
    /\ pc' = "before"
    /\ di' = 1
    /\ UNCHANGED <<typeVars, caller_context, registry, call, retval, rh,
                   connector_context, event_context, invoked, overtaken>>

\* Has the caller got control back?  `await dispatch_event(...)` resumes
\* when the dispatch has returned or raised; broadcast_event is a plain
\* function that returns the scheduled task.
CallerResumedWhenDone == pc \in {"returned", "raised"}

CallerResumed ==
    IF call.via = "broadcast_event"
    THEN pc # "idle"
    ELSE pc \in {"returned", "raised"}

\* The context a dispatch is requested in: outside any handler, or inside
\* the On handler of connector "C" for the event "adjust"
\* (run_event_handlers has set both context variables for it).
CallerContexts ==
    {NoContext, [connector |-> "C", event |-> EventContext("adjust", "on")]}

\* the include= argument: not given, empty, a reordered part of the group
IncludeChoices == {None, ListOf(<<>>), ListOf(<<"B", "A">>)}

\* the exclude= argument: not given, empty, a member of the group, a
\* connector outside the group that has the name of a member
ExcludeChoices == {None, ListOf(<<>>), ListOf(<<"B">>), ListOf(<<"A2">>)}

\* every connector has handlers for every preposition
FullRegistry ==
    <<EventHandler("adjust", "on", {}, "returns")>>
        \o Rounds(AllPrepositions, MaxHandlers)

InitCalls ==
    /\ registry = [c \in Connectors |-> FullRegistry]
    /\ caller_context \in CallerContexts
    /\ NoDispatch
    /\ NoTypes

NextCalls ==
    \/ \E first \in BOOLEAN, include \in IncludeChoices,
          exclude \in ExcludeChoices, ps \in {AllPrepositions, {}} :
          Dispatch("measure", first, include, exclude, ps, {})
    \/ \E first \in BOOLEAN, include \in IncludeChoices,
          exclude \in ExcludeChoices, ps \in {AllPrepositions, {}} :
          Broadcast("measure", first, include, exclude, ps, {})
    \/ BroadcastRun
    \/ Step

SpecCalls == InitCalls /\ [][NextCalls]_vars

\* ---------------------------------------------------------------------
\* Type definition.  A type is a number (the order of definition); its
\* __event_handlers__ attribute refers to a list object of `heap`, so that
\* two types sharing one list would see each other's appends.

MaxTypes == 3

MaxInstances == 1

\* The value of an attribute in the class body.  The k-th declaration is a
\* method decorated as an event handler (value.__event_handler__ is an
\* EventHandler), an attribute whose __event_handler__ is something else,
\* or an attribute without one (getattr gives None).
Declaration(k) ==
    [descriptor |-> "EventHandler", key |-> k,
     event |-> IF k % 2 = 1 THEN "measure" ELSE "adjust",
     preposition |-> PrepositionOrder[((k - 1) % Len(PrepositionOrder)) + 1]]

Declarations(n) == [k \in 1..n |-> Declaration(k)]

UnexpectedDescriptor(k) ==
    [descriptor |-> "other", key |-> k, event |-> "measure", preposition |-> "on"]

PlainAttribute(k) ==
    [descriptor |-> "none", key |-> k, event |-> "measure", preposition |-> "on"]

\* the class bodies: a plain method only, MaxHandlers handlers, and a
\* handler followed by a plain method, an unexpected descriptor and
\* another handler
Namespaces ==
    {<<PlainAttribute(1)>>, Declarations(MaxHandlers),
     <<Declaration(1), PlainAttribute(2), UnexpectedDescriptor(3),
       Declaration(4)>>}

\* Strings.  A class name is CamelCase words, an identifier is words
\* joined by "_", a module path is a dotted module and an attribute name;
\* the words are kept in lower case.  Camel(<<"vegeta", "connector">>) is
\* "VegetaConnector", Snake(<<"k8s", "load">>) is "k8s_load".
Camel(words) == [case |-> "camel", words |-> words]

Snake(words) == [case |-> "snake", words |-> words]

DottedPath(module, attr) == [case |-> "path", module |-> module, attr |-> attr]

\* cls.__name__ of the t-th type defined
TypeNames ==
    <<Camel(<<"vegeta", "connector">>), Camel(<<"k8s", "load">>),
      Camel(<<"vegeta">>)>>

TypeName(t) == TypeNames[((t - 1) % Len(TypeNames)) + 1]

\* _name_for_connector_class: re.sub(r"Connector$", "", cls.__name__), then
\* "_" before every capital but the first, then lower()
NameForConnectorClass(name) ==
    Snake(IF name.words # <<>> /\ name.words[Len(name.words)] = "connector"
          THEN SubSeq(name.words, 1, Len(name.words) - 1)
          ELSE name.words)

\* the types of `classes` whose definition completed
Defined == {t \in DOMAIN classes : classes[t].status = "defined"}

\* the bases of a class statement: Connector alone (written <<>>), or one
\* or two connector types defined before
BasesChoices ==
    {<<>>} \cup {<<b>> : b \in Defined}
           \cup ({<<b1, b2>> : b1, b2 \in Defined} \ {<<b, b>> : b \in Defined})

\* reversed(bases)
NotReversed(s) == s

Reversed(s) == [i \in 1..Len(s) |-> s[Len(s) + 1 - i]]

\* cls.__event_handlers__ of a type
EventHandlers(t) == heap[classes[t].event_handlers]

\* type.__new__ linearises the bases (C3): the next type of the order is
\* the head of the first list whose head is in the tail of no list; <<0>>
\* when there is none (TypeError: cannot create a consistent MRO).
RECURSIVE Merge(_)
Merge(ls) ==
    LET ne == SelectSeq(ls, LAMBDA l : l # <<>>)
    IN  IF ne = <<>>
        THEN <<>>
        ELSE LET good == {i \in 1..Len(ne) :
                             \A j \in 1..Len(ne) : \A k \in 2..Len(ne[j]) :
                                 ne[j][k] # ne[i][1]}
             IN  IF good = {}
                 THEN <<0>>
                 ELSE LET i == CHOOSE x \in good : \A y \in good : x <= y
                          h == ne[i][1]
                          m == Merge([j \in 1..Len(ne) |->
                                        SelectSeq(ne[j], LAMBDA x : x # h)])
                      IN  IF m # <<>> /\ m[1] = 0 THEN <<0>> ELSE <<h>> \o m

Linearized(bases) ==
    Merge([i \in 1..Len(bases) |-> classes[bases[i]].mro] \o <<bases>>)

Consistent(mro) == \A i \in 1..Len(mro) : mro[i] # 0

\* for base in reversed(bases): event_handlers.extend(base.__event_handlers__)
\* (every base of `bases` is a Connector subclass other than Connector)
RECURSIVE Extended(_)
Extended(bs) ==
    IF bs = <<>> THEN <<>> ELSE EventHandlers(Head(bs)) \o Extended(Tail(bs))

Inherited(bases) == Extended(Reversed(bases))

\* for key, value in cls.__dict__.items(): the handlers appended, in
\* declaration order, up to the first unexpected descriptor;
\* handler.connector_type = cls
RECURSIVE Appended(_, _)
Appended(t, ns) ==
    IF ns = <<>>
    THEN <<>>
    ELSE IF Head(ns).descriptor = "none"
    THEN Appended(t, Tail(ns))
    ELSE IF Head(ns).descriptor # "EventHandler"
    THEN <<>>
    ELSE <<[event |-> Head(ns).event, preposition |-> Head(ns).preposition,
            connector_type |-> t, key |-> Head(ns).key]>>
             \o Appended(t, Tail(ns))

\* if handler := getattr(value, "__event_handler__", None):
\*     if not isinstance(handler, EventHandler): raise TypeError
RaisesNever(ns) == FALSE

Raises(ns) ==
    \E k \in 1..Len(ns) : ns[k].descriptor \notin {"EventHandler", "none"}

\* event_handlers: List[EventDescriptor] = []  -- the list object the new
\* type gets: a new one
RegistryListOfBase(t, bases) ==
    IF bases = <<>> THEN t ELSE classes[bases[Len(bases)]].event_handlers

RegistryList(t, bases) == t

\* the list of the new type once __new__ and __init_subclass__ have run
RegisteredOwnFirst(inherited, own) == own \o inherited

Registered(inherited, own) == inherited \o own

\* class T(*bases): <ns>  -- ConnectorMetaclass.__new__ builds the list,
\* type.__new__ creates the class and calls __init_subclass__, which adds
\* the class to _connector_subclasses and appends its handlers.  When
\* __init_subclass__ raises, the class statement binds no name.
DefineType(bases, ns) ==
    LET t == Len(classes) + 1
        list == RegistryList(t, bases)
        before == IF list \in DOMAIN heap THEN heap[list] ELSE <<>>
        contents == Registered(before \o Inherited(bases), Appended(t, ns))
    IN
    /\ t <= MaxTypes
    /\ bases \in BasesChoices
    /\ Consistent(Linearized(bases))
    /\ classes' = Append(classes,
                         [name |-> TypeName(t),
                          default_name |-> NameForConnectorClass(TypeName(t)),
                          bases |-> bases, mro |-> <<t>> \o Linearized(bases),
                          dict |-> ns, event_handlers |-> list,
                          status |-> IF Raises(ns) THEN "TypeError" ELSE "defined"])
    /\ heap' = [i \in DOMAIN heap \cup {list} |->
                   IF i = list THEN contents ELSE heap[i]]
    /\ connector_subclasses' = connector_subclasses \cup {t}
    /\ UNCHANGED <<event_bus, resolved, caller_context, registry, pc, call, di,
                   results, retval, rh, connector_context, event_context,
                   invoked, overtaken>>

\* T(): __connectors__ defaults to [self]; _connector_event_bus[self] = it
Construct(t) ==
    LET self == Len(event_bus) + 1
    IN
    /\ t \in Defined
    /\ self <= MaxInstances
    /\ event_bus' = Append(event_bus, [type |-> t, connectors |-> <<self>>])
    /\ UNCHANGED <<classes, heap, connector_subclasses, resolved, caller_context,
                   registry, pc, call, di, results, retval, rh,
                   connector_context, event_context, invoked, overtaken>>

InitTypes ==
    /\ registry = [c \in Connectors |-> <<>>]
    /\ caller_context = NoContext
    /\ NoDispatch
    /\ NoTypes

NextTypes ==
    \/ \E bases \in BasesChoices, ns \in Namespaces : DefineType(bases, ns)
    \/ \E t \in Defined : Construct(t)

SpecTypes == InitTypes /\ [][NextTypes]_vars

\* ---------------------------------------------------------------------
\* _connector_class_from_string

\* Objects a lookup can produce: Connector itself (id 0), the t-th
\* connector type defined (id t), and types that are no connectors:
\* BaseConfiguration of this module, the builtin int, decimal.Decimal.
ClassObject(id, component) == [tag |-> "class", id |-> id, component |-> component]

ConnectorBase == ClassObject(0, TRUE)

ConnectorType(t) == ClassObject(t, TRUE)

BaseConfigurationType == ClassObject(0 - 1, FALSE)

IntType == ClassObject(0 - 2, FALSE)

DecimalType == ClassObject(0 - 3, FALSE)

Returned(value) == [tag |-> "return", value |-> value]

Raised(exception) == [tag |-> "raise", exception |-> exception]

\* globals().get(connector, None): the names bound in servo/connector.py
GlobalsGet(connector) ==
    IF connector = Camel(<<"connector">>) THEN ConnectorBase
    ELSE IF connector = Camel(<<"base", "configuration">>)
    THEN BaseConfigurationType
    ELSE None

\* eval(connector) if connector_class is None else connector_class, with
\* `except Exception: pass`: a builtin evaluates to itself, any other
\* string here raises NameError and connector_class stays None
ConnectorClassInNamespace(connector) ==
    IF GlobalsGet(connector) # None THEN GlobalsGet(connector)
    ELSE IF connector = Snake(<<"int">>) THEN IntType
    ELSE None

\* _validate_class: False for None, TypeError for a type that is no
\* Connector subclass, True otherwise
ValidateClass(connector) ==
    IF connector = None THEN "False"
    ELSE IF ~connector.component THEN "TypeError"
    ELSE "True"

\* importlib.import_module(module_path) succeeds for these modules
Importable == {"decimal", "servo.connector"}

\* getattr(module, class_name) if hasattr(module, class_name), else None
ModuleAttribute(module, class_name) ==
    IF module = "decimal" /\ class_name = "Decimal" THEN DecimalType
    ELSE IF module = "servo.connector" /\ class_name = "Connector"
    THEN ConnectorBase
    ELSE None

\* connector == connector_class.__default_name__ or connector in
\* [connector_class.__name__, connector_class.__qualname__]; the types
\* are defined at module level, where __qualname__ is __name__
Identifies(connector, t) ==
    \/ connector = classes[t].default_name
    \/ connector = classes[t].name

\* if "." in connector: import the module and look the class up
FromModulePath(connector) ==
    IF connector.module \notin Importable
    THEN {Raised("ModuleNotFoundError")}
    ELSE IF ModuleAttribute(connector.module, connector.attr) = None
    THEN {Returned(None)}
    ELSE IF ValidateClass(ModuleAttribute(connector.module, connector.attr))
                = "TypeError"
    THEN {Raised("TypeError")}
    ELSE {Returned(ModuleAttribute(connector.module, connector.attr))}

\* The outcomes of _connector_class_from_string(connector).  The loop runs
\* over a set, so any of the types the string identifies can be the one
\* it meets first.
ConnectorClassFromString(connector) ==
    IF connector.case = "int"
    THEN {Returned(None)}
    ELSE IF ValidateClass(ConnectorClassInNamespace(connector)) = "TypeError"
    THEN {Raised("TypeError")}
    ELSE IF ValidateClass(ConnectorClassInNamespace(connector)) = "True"
    THEN {Returned(ConnectorClassInNamespace(connector))}
    ELSE IF \E t \in connector_subclasses : Identifies(connector, t)
    THEN {Returned(ConnectorType(t)) :
              t \in {u \in connector_subclasses : Identifies(connector, u)}}
    ELSE IF connector.case = "path"
    THEN FromModulePath(connector)
    ELSE {Returned(None)}

\* the arguments tried: the names and default names of the types, a name
\* nothing has, names of this module, a builtin, module paths, and 42
Strings ==
    {TypeNames[i] : i \in 1..Len(TypeNames)}
        \cup {NameForConnectorClass(TypeNames[i]) : i \in 1..Len(TypeNames)}
        \cup {Snake(<<"vegeta", "connector">>), Camel(<<"connector">>),
              Camel(<<"base", "configuration">>), Snake(<<"int">>),
              DottedPath("nowhere", "Thing"), DottedPath("decimal", "missing"),
              DottedPath("decimal", "Decimal"),
              DottedPath("servo.connector", "Connector")}

Arguments == Strings \cup {[case |-> "int"]}

Resolve(connector) ==
    /\ \E outcome \in ConnectorClassFromString(connector) :
            resolved' = [input |-> connector, outcome |-> outcome]
    /\ UNCHANGED <<classes, heap, connector_subclasses, event_bus,
                   caller_context, registry, pc, call, di, results, retval, rh,
                   connector_context, event_context, invoked, overtaken>>

InitResolve ==
    /\ registry = [c \in Connectors |-> <<>>]
    /\ caller_context = NoContext
    /\ NoDispatch
    /\ NoTypes

NextResolve ==
    \/ \E bases \in BasesChoices, ns \in Namespaces : DefineType(bases, ns)
    \/ \E connector \in Arguments : Resolve(connector)

SpecResolve == InitResolve /\ [][NextResolve]_vars

\* =====================================================================
\* Properties

\* position of a connector in the group
Pos(c) == CHOOSE i \in 1..Len(Group) : Group[i] = c

Rank(p) == CHOOSE i \in 1..Len(PrepositionOrder) : PrepositionOrder[i] = p

\* the registry entries of c registered for the dispatched event and p
Matching(c, p) ==
    {i \in 1..Len(registry[c]) :
        registry[c][i].event = call.event /\ registry[c][i].preposition = p}

\* connectors that are executing a handler
InHandler == {c \in Connectors : rh[c].pc = "handler"}

\* the EventResult the handler at index h of c's registry produces
ResultOf(c, p, h) ==
    EventResult(c, call.event, p, h,
                IF registry[c][h].handler = "raises" THEN "EventError" ELSE "value")

\* a Before handler has raised a cancellation in this dispatch
CancelRaised ==
    \E c \in Connectors : rh[c].pc = "raised" /\ rh[c].exc = "CancelEventError"

CancelReturned ==
    /\ retval.tag = "list"
    /\ \E i \in 1..Len(retval.items) : retval.items[i].value = "CancelEventError"

\* <<connector, handler>> pairs lexicographically ordered by group position
\* and registry index
Precedes(c1, h1, c2, h2) == Pos(c1) < Pos(c2) \/ (c1 = c2 /\ h1 < h2)

\* ---------------------------------------------------------------------
\* C1: while a handler registered for preposition p is executing, no
\* handler of a later preposition has been invoked yet in the dispatch:
\* all Before invocations are over before the first On invocation, and all
\* On invocations are over before the first After invocation, whatever
\* subset of prepositions was requested.
C1_PhaseOrder ==
    \A c \in InHandler : \A x \in invoked :
        Rank(x[2]) <= Rank(rh[c].preposition)

C1_Witness ==
    /\ pc = "returned"
    /\ ~call.first
    /\ call.prepositions = AllPrepositions
    /\ ~CancelReturned
    /\ \A p \in AllPrepositions :
          \E x, y \in invoked : x[2] = p /\ y[2] = p /\ x[1] # y[1]

\* ---------------------------------------------------------------------
\* C2: once a Before handler h of a connector B has raised a cancellation,
\* the only handlers ever invoked in the dispatch are Before handlers: those
\* of the connectors before B in the group and those of B up to h.
C2_CancelHalts ==
    /\ \A c \in Connectors :
          (rh[c].pc = "raised" /\ rh[c].exc = "CancelEventError") =>
              \A x \in invoked :
                  /\ x[2] = "before"
                  /\ ~Precedes(c, rh[c].hs[rh[c].idx], x[1], x[3])
    /\ CancelReturned =>
          \A x \in invoked :
              /\ x[2] = "before"
              /\ ~Precedes(retval.items[1].connector, retval.items[1].handler,
                           x[1], x[3])

C2_Witness ==
    /\ pc = "returned"
    /\ CancelReturned
    /\ retval.items[1].connector = "B"
    /\ \E h \in Matching("B", "before") : h > retval.items[1].handler
    /\ Matching("A", "before") # {} /\ Matching("A", "on") # {}
    /\ Matching("A", "after") # {} /\ Matching("C", "before") # {}

\* ---------------------------------------------------------------------
\* C3: a dispatch ended by a cancellation returns a list of exactly one
\* EventResult: connector, event, preposition Before and handler are those
\* of the Before handler invoked last (the one that cancelled), the value is
\* the cancellation.
C3_CancelResult ==
    (pc = "returned" /\ CancelReturned) =>
        /\ Len(retval.items) = 1
        /\ LET r == retval.items[1]
           IN  /\ r.event = call.event
               /\ r.preposition = "before"
               /\ r.value = "CancelEventError"
               /\ r.handler \in Matching(r.connector, "before")
               /\ <<r.connector, "before", r.handler>> \in invoked
               /\ \A x \in invoked : ~Precedes(r.connector, r.handler, x[1], x[3])

C3_Witness ==
    /\ pc = "returned"
    /\ CancelReturned
    /\ retval.items[1].connector = "B"
    /\ \E h \in Matching("B", "before") : h < retval.items[1].handler
    /\ Matching("A", "before") # {}

\* ---------------------------------------------------------------------
\* C4: after the concurrent On phase of a non-first dispatch the result
\* list holds one result per On handler of every candidate, ordered by the
\* connector's position in the group and then by registry order, whatever
\* the order in which the tasks finished.
OnPhaseOver == pc \in {"after", "after_wait", "returned"}

C4_GroupOrder ==
    (OnPhaseOver /\ ~call.first /\ "on" \in call.prepositions /\ ~CancelReturned) =>
        /\ results.tag = "list"
        /\ \A i, j \in 1..Len(results.items) :
              i < j => Precedes(results.items[i].connector, results.items[i].handler,
                                results.items[j].connector, results.items[j].handler)
        /\ {<<results.items[i].connector, results.items[i].handler>> :
               i \in 1..Len(results.items)}
           = UNION {{<<c, h>> : h \in Matching(c, "on")} : c \in Connectors}
        /\ \A i \in 1..Len(results.items) :
              results.items[i] =
                  ResultOf(results.items[i].connector, "on", results.items[i].handler)
        /\ pc = "returned" => retval = results

C4_Witness ==
    /\ pc = "returned"
    /\ ~call.first
    /\ overtaken
    /\ \A c \in Connectors :
          \E i \in 1..Len(retval.items) : retval.items[i].connector = c

\* ---------------------------------------------------------------------
\* C5: a handler that is executing, suspended or resumed, reads its own
\* connector and its own (event, preposition) as the execution context.
C5_OwnContext ==
    \A c \in InHandler :
        /\ CurrentConnector(rh[c].task) = c
        /\ CurrentEventContext(rh[c].task) =
               EventContext(call.event, rh[c].preposition)

C5_Witness ==
    /\ rh["A"].pc = "handler" /\ rh["A"].task = "A" /\ rh["A"].idx > 1
    /\ rh["B"].pc = "handler" /\ rh["B"].task = "B" /\ rh["B"].idx > 1
    /\ rh["A"].preposition = "on"

\* ---------------------------------------------------------------------
\* C6: in a first=true dispatch the only connector whose On handlers are
\* ever invoked is the first candidate that has On handlers for the event,
\* and at most one connector's run_event_handlers is in progress at a time.
HasOn(c) == Matching(c, "on") # {}

FirstWithOn(c) == HasOn(c) /\ \A d \in Connectors : HasOn(d) => Pos(c) <= Pos(d)

C6_FirstShortCircuit ==
    call.first =>
        /\ \A x \in invoked : x[2] = "on" => FirstWithOn(x[1])
        /\ \A c, d \in Connectors :
              (rh[c].preposition = "on" /\ rh[d].preposition = "on"
               /\ rh[c].pc # "idle" /\ rh[d].pc # "idle") => c = d

C6_Witness ==
    /\ pc = "returned"
    /\ call.first
    /\ ~HasOn("A") /\ HasOn("B") /\ HasOn("C")
    /\ \E x \in invoked : x[1] = "B" /\ x[2] = "on"

\* ---------------------------------------------------------------------
\* C7 as stated: a first=true dispatch that ran its On phase and was not
\* cancelled returns all the On results of the first candidate that has On
\* handlers.
Contents(v) ==
    IF v.tag = "None" THEN <<>>
    ELSE IF v.tag = "result" THEN <<v.r>>
    ELSE v.items

C7_AllResultsOfFirst ==
    (pc = "returned" /\ call.first /\ "on" \in call.prepositions /\ ~CancelReturned) =>
        \A c \in Connectors : FirstWithOn(c) =>
            /\ Len(Contents(retval)) = Cardinality(Matching(c, "on"))
            /\ \A h \in Matching(c, "on") :
                  \E i \in 1..Len(Contents(retval)) :
                      Contents(retval)[i] = ResultOf(c, "on", h)

\* C7 amended: a first=true dispatch that is not cancelled returns the
\* single EventResult of the first On handler, in registry order, of the
\* first candidate that has On handlers for the event, and None when no
\* candidate has an On handler or the On phase was not requested.
C7_FirstResultOfFirst ==
    (pc = "returned" /\ call.first /\ ~CancelReturned) =>
        IF "on" \in call.prepositions /\ \E c \in Connectors : HasOn(c)
        THEN /\ retval.tag = "result"
             /\ \E c \in Connectors :
                   /\ FirstWithOn(c)
                   /\ \E h \in Matching(c, "on") :
                         /\ \A g \in Matching(c, "on") : h <= g
                         /\ retval.r = ResultOf(c, "on", h)
        ELSE retval = None

C7_Witness ==
    /\ pc = "returned"
    /\ call.first
    /\ retval.tag = "result"
    /\ retval.r.connector = "B"
    /\ Cardinality(Matching("B", "on")) > 1
    /\ HasOn("C")

\* ---------------------------------------------------------------------
\* C8 as stated: a handler declared with a default for keyword k and
\* invoked by a caller that supplies no k is called with k bound to the
\* declared default.
C8_DeclaredDefaultApplies ==
    \A c \in InHandler :
        \A d \in registry[c][rh[c].hs[rh[c].idx]].kwargs :
            d[1] \notin Keys(call.kwargs) => d \in rh[c].passed

\* ---------------------------------------------------------------------
\* C9: every keyword argument the caller supplies reaches the handler with
\* the caller's value, also when the handler declared a default of the same
\* name, and no keyword is passed with two values.
C9_CallerKwargsWin ==
    \A c \in InHandler :
        /\ call.kwargs \subseteq rh[c].passed
        /\ \A x, y \in rh[c].passed : x[1] = y[1] => x = y

C9_Witness ==
    \E c \in InHandler :
        /\ \E d \in registry[c][rh[c].hs[rh[c].idx]].kwargs :
              d[1] \in Keys(call.kwargs) /\ d \notin call.kwargs
        /\ \E x \in call.kwargs :
              x[1] \notin Keys(registry[c][rh[c].hs[rh[c].idx]].kwargs)

\* ---------------------------------------------------------------------
\* C10: run_event_handlers returns None, having invoked nothing, exactly
\* when the connector's registry has no handler for (event, preposition);
\* otherwise it returns a non-empty list with one EventResult per matching
\* handler, in registry order.
C10_NoneIffNoHandlers ==
    \A c \in Connectors : rh[c].pc = "done" =>
        LET M == Matching(c, rh[c].preposition)
            ret == rh[c].ret
        IN  IF M = {}
            THEN /\ ret = None
                 /\ \A x \in invoked : ~(x[1] = c /\ x[2] = rh[c].preposition)
            ELSE /\ ret.tag = "list"
                 /\ Len(ret.items) = Cardinality(M)
                 /\ {ret.items[i].handler : i \in 1..Len(ret.items)} = M
                 /\ \A i, j \in 1..Len(ret.items) :
                       i < j => ret.items[i].handler < ret.items[j].handler
                 /\ \A i \in 1..Len(ret.items) :
                       ret.items[i] =
                           ResultOf(c, rh[c].preposition, ret.items[i].handler)

C10_Witness ==
    /\ rh["A"].pc = "done" /\ rh["A"].ret = None
    /\ rh["B"].pc = "done" /\ rh["B"].ret.tag = "list"
    /\ Len(rh["B"].ret.items) > 1
    /\ rh["A"].preposition = rh["B"].preposition
    /\ registry["A"] # <<>>

\* ---------------------------------------------------------------------
\* C12: when dispatch_event has returned from a dispatch that requested the
\* After phase, no run_event_handlers call of the dispatch is pending or
\* inside a handler, and unless the dispatch was cancelled every After
\* handler of every candidate has been invoked.
C12_AfterAwaited ==
    (pc = "returned" /\ "after" \in call.prepositions) =>
        /\ \A c \in Connectors : rh[c].pc \notin {"ready", "handler"}
        /\ ~CancelReturned =>
              \A i \in 1..Len(Candidates) :
                  \A h \in Matching(Candidates[i], "after") :
                      <<Candidates[i], "after", h>> \in invoked

C12_Witness ==
    /\ pc = "returned"
    /\ "after" \in call.prepositions
    /\ \E x, y \in invoked : x[2] = "after" /\ y[2] = "after" /\ x[1] # y[1]

\* ---------------------------------------------------------------------
\* C13: an EventError raised by a handler is the value of that handler's
\* EventResult and stops nothing: a dispatch that is not cancelled and
\* returns has invoked every handler of every requested phase (in first
\* mode: every Before and After handler and the first responder's On
\* handlers), those registered after a raising handler included.
Requested(c, p, h) ==
    /\ p \in call.prepositions
    /\ h \in Matching(c, p)
    /\ (call.first /\ p = "on") => FirstWithOn(c)

C14_CancelOutsideBefore ==
    /\ \A c \in Connectors :
          (rh[c].pc = "raised" /\ rh[c].preposition # "before") =>
              /\ rh[c].exc = "TypeError"
              /\ rh[c].result = None
              /\ retval = None
              /\ \/ pc = "raised"
                 \/ pc = "on" /\ call.first /\ di <= Len(Candidates) /\ Candidates[di] = c
                 \/ pc \in {"on_wait", "after_wait"}
    /\ \A c \in Connectors : \A i \in 1..Len(rh[c].results) :
          rh[c].results[i].value # "CancelEventError"
    /\ results.tag = "list" =>
          \A i \in 1..Len(results.items) :
              results.items[i].value # "CancelEventError"

C14_Witness ==
    /\ pc = "raised"
    /\ \E c, d \in Connectors :
          /\ c # d
          /\ rh[c].pc = "raised" /\ rh[c].exc = "TypeError"
          /\ rh[c].preposition = "after"
          /\ rh[d].pc = "handler"

\* ---------------------------------------------------------------------
\* C16: in a non-first dispatch every After handler invocation receives one
\* additional positional argument, the dispatch's On-phase result list (one
\* result per On handler of every candidate in group order; empty when the
\* On phase was not requested), and that list is what dispatch_event
\* returns.
IsOnResultList(v) ==
    /\ v.tag = "list"
    /\ IF "on" \in call.prepositions
       THEN /\ \A i, j \in 1..Len(v.items) :
                  i < j => Precedes(v.items[i].connector, v.items[i].handler,
                                    v.items[j].connector, v.items[j].handler)
            /\ {<<v.items[i].connector, v.items[i].handler>> :
                   i \in 1..Len(v.items)}
               = UNION {{<<c, h>> : h \in Matching(c, "on")} : c \in Connectors}
            /\ \A i \in 1..Len(v.items) :
                  v.items[i] =
                      ResultOf(v.items[i].connector, "on", v.items[i].handler)
       ELSE v.items = <<>>

C16_AfterReceivesOnResults ==
    ~call.first =>
        /\ \A c \in Connectors :
              (rh[c].preposition = "after" /\ rh[c].pc # "idle") =>
                  /\ Len(rh[c].args) = 1
                  /\ rh[c].args[1] = results
                  /\ IsOnResultList(rh[c].args[1])
        /\ (pc = "returned" /\ "after" \in call.prepositions /\ ~CancelReturned) =>
              retval = results

C16_Witness ==
    /\ ~call.first
    /\ \E c \in InHandler :
          /\ rh[c].preposition = "after"
          /\ rh[c].idx > 1
          /\ Len(rh[c].args) = 1
          /\ Len(rh[c].args[1].items) > 2

\* ---------------------------------------------------------------------
\* C17 as stated: a non-first dispatch that is not cancelled returns a list
\* holding exactly one EventResult per (candidate, On handler) pair, all of
\* preposition On.
OnPairs == UNION {{<<c, h>> : h \in Matching(c, "on")} : c \in Connectors}

HoldsOnePerOnHandler(v) ==
    /\ v.tag = "list"
    /\ Len(v.items) = Cardinality(OnPairs)
    /\ {<<v.items[i].connector, v.items[i].handler>> : i \in 1..Len(v.items)}
       = OnPairs
    /\ \A i \in 1..Len(v.items) : v.items[i].preposition = "on"

C17_OnePerOnHandler ==
    (pc = "returned" /\ ~call.first /\ ~CancelReturned) =>
        HoldsOnePerOnHandler(retval)

\* C17 amended: a non-first dispatch that is not cancelled returns a list,
\* never None: when the On phase was requested it holds exactly one
\* EventResult per (candidate, On handler) pair, all of preposition On, and
\* when the On phase was not requested it is empty.
C17_OnePerOnHandlerWhenRequested ==
    (pc = "returned" /\ ~call.first /\ ~CancelReturned) =>
        IF "on" \in call.prepositions
        THEN HoldsOnePerOnHandler(retval)
        ELSE retval = ListOf(<<>>)

C17_Witness ==
    /\ pc = "returned"
    /\ ~call.first
    /\ call.prepositions = AllPrepositions
    /\ ~CancelReturned
    /\ registry["A"] # <<>> /\ ~HasOn("A")
    /\ HasOn("B") /\ HasOn("C")
    /\ Len(retval.items) > 2

\* ---------------------------------------------------------------------
\* C15: once a call of run_event_handlers has finished (returned or raised)
\* the current connector and the current event context of the task it ran
\* in are what they were before the call: the values of the caller of the
\* dispatch, None outside any handler and the outer handler's connector
\* and event when the dispatch was requested from inside a handler.  A task
\* sees other values only while one of its handlers is running.
C15_ContextRestored ==
    \A t \in Tasks :
        (\A c \in Connectors : ~(rh[c].task = t /\ rh[c].pc = "handler")) =>
            /\ CurrentConnector(t) = caller_context.connector
            /\ CurrentEventContext(t) = caller_context.event

C15_Witness ==
    /\ caller_context.connector = "C"
    /\ \E c \in Connectors :
          /\ c # "C"
          /\ rh[c].task = "main"
          /\ rh[c].pc = "done"
          /\ rh[c].hs # <<>>
          /\ <<c, rh[c].preposition, rh[c].hs[1]>> \in invoked
    /\ CurrentConnector("main") = "C"
    /\ CurrentEventContext("main") = EventContext("adjust", "on")

\* ---------------------------------------------------------------------
\* C19: run_event_handlers is only ever called on, and handlers only ever
\* run for, the connectors of the include list when one is given (the
\* group otherwise) whose name is not the name of a connector of the
\* exclude list; a dispatch of all phases that is not cancelled returns
\* the On results of exactly these connectors.
IsCandidate(c) ==
    /\ IF call.include = None
       THEN \E i \in 1..Len(Group) : Group[i] = c
       ELSE \E i \in 1..Len(call.include.items) : call.include.items[i] = c
    /\ \/ call.exclude = None
       \/ \A i \in 1..Len(call.exclude.items) : Name(call.exclude.items[i]) # Name(c)

C19_CandidatesNarrowed ==
    /\ \A c \in Connectors : rh[c].pc # "idle" => IsCandidate(c)
    /\ \A x \in invoked : IsCandidate(x[1])
    /\ (pc = "returned" /\ ~call.first /\ "on" \in call.prepositions
          /\ ~CancelReturned) =>
           {retval.items[i].connector : i \in 1..Len(retval.items)}
               = {c \in Connectors : IsCandidate(c)}

C19_Witness ==
    /\ pc = "returned"
    /\ call.include = ListOf(<<"B", "A">>)
    /\ call.exclude = ListOf(<<"A2">>)
    /\ ~call.first
    /\ retval.tag = "list"
    /\ retval.items # <<>>
    /\ ~CancelReturned
    /\ \A i \in 1..Len(retval.items) : retval.items[i].connector = "B"

\* ---------------------------------------------------------------------
\* C20: when broadcast_event has scheduled the dispatch its caller has
\* control again and no handler has been invoked; from then on the caller
\* stays in control while the dispatch runs, and the dispatch goes through
\* the phases as one of dispatch_event does: the prepositions in order,
\* only Before handlers invoked when it is cancelled, After awaited before
\* it is over.
C20_BroadcastReturnsFirst ==
    call.via = "broadcast_event" =>
        /\ CallerResumed
        /\ pc = "created" =>
              /\ invoked = {}
              /\ \A c \in Connectors : rh[c].pc = "idle"
              /\ retval = None
        /\ C1_PhaseOrder
        /\ CancelReturned => \A x \in invoked : x[2] = "before"
        /\ C12_AfterAwaited

C20_Witness ==
    /\ call.via = "broadcast_event"
    /\ pc \in {"on_wait", "after_wait"}
    /\ invoked # {}
    /\ \E c \in Connectors : rh[c].pc = "handler"
    /\ CallerResumed

\* ---------------------------------------------------------------------
\* C11: the registry of every defined type that has exactly one connector
\* base is the registry of that base, in the base's order, followed by the
\* handlers the type declares itself, in declaration order.
Declared(t) ==
    LET own == SelectSeq(classes[t].dict,
                         LAMBDA v : v.descriptor = "EventHandler")
    IN  [k \in 1..Len(own) |->
            [event |-> own[k].event, preposition |-> own[k].preposition,
             connector_type |-> t, key |-> own[k].key]]

C11_BaseThenOwn ==
    \A t \in Defined :
        Len(classes[t].bases) = 1 =>
            EventHandlers(t) = EventHandlers(classes[t].bases[1]) \o Declared(t)

C11_Witness ==
    \E t \in Defined :
        /\ Len(classes[t].bases) = 1
        /\ Len(classes[classes[t].bases[1]].bases) = 1
        /\ Len(EventHandlers(classes[t].bases[1])) > Len(Declared(t))
        /\ Len(Declared(t)) > 1
        /\ EventHandlers(t)[Len(EventHandlers(t))].connector_type = t
        /\ EventHandlers(t)[1].connector_type # t

\* ---------------------------------------------------------------------
\* C18: no step changes a type whose definition has completed: after the
\* definition of another type (a subtype of it or not, declaring handlers
\* or failing) and after the construction of an instance, the type has
\* the same bases and declarations and its registry holds the same
\* handlers in the same order.
C18_RegistryFixed ==
    [][\A t \in Defined :
          /\ t \in DOMAIN classes'
          /\ classes'[t] = classes[t]
          /\ heap'[classes[t].event_handlers] = heap[classes[t].event_handlers]]_vars

C18_Witness ==
    /\ event_bus # <<>>
    /\ \E t, u \in Defined :
          /\ classes[t].bases = <<>>
          /\ classes[u].bases = <<t>>
          /\ Declared(u) # <<>>
          /\ Declared(t) # <<>>
          /\ EventHandlers(t) = Declared(t)
          /\ event_bus[1].type = t

\* ---------------------------------------------------------------------
\* C24: while a Before handler h of a connector c is running, no other
\* run_event_handlers call of the dispatch is in progress, every handler
\* invoked so far is a Before handler at or before (c, h) in group and
\* registry order, and every Before handler that precedes (c, h) in that
\* order has been invoked (and, as none is running, has finished).
C24_BeforeSequential ==
    \A c \in Connectors :
        (rh[c].preposition = "before" /\ rh[c].pc = "handler") =>
            LET h == rh[c].hs[rh[c].idx]
            IN  /\ \A d \in Connectors \ {c} : rh[d].pc = "idle"
                /\ \A x \in invoked :
                      x[2] = "before" /\ ~Precedes(c, h, x[1], x[3])
                /\ \A d \in Connectors : \A g \in Matching(d, "before") :
                      Precedes(d, g, c, h) => <<d, "before", g>> \in invoked

C24_Witness ==
    /\ rh["B"].preposition = "before"
    /\ rh["B"].pc = "handler"
    /\ rh["B"].idx = 2
    /\ Cardinality(Matching("A", "before")) > 1
    /\ Matching("C", "before") # {}

\* ---------------------------------------------------------------------
\* C26: every handler invoked, and every run_event_handlers call made, is
\* for a preposition of the requested subset; a dispatch that does not
\* request Before never sees a cancellation raised to it and never returns
\* a cancellation result.
C26_OnlyRequested ==
    /\ \A x \in invoked : x[2] \in call.prepositions
    /\ \A c \in Connectors :
          rh[c].pc # "idle" => rh[c].preposition \in call.prepositions
    /\ "before" \notin call.prepositions => (~CancelReturned /\ ~CancelRaised)

C26_Witness ==
    /\ pc = "returned"
    /\ call.prepositions = {"on"}
    /\ \E x \in invoked : x[1] = "A"
    /\ Matching("A", "before") # {}
    /\ Matching("A", "after") # {}

\* ---------------------------------------------------------------------
\* C27: in a first=true dispatch every After handler is passed one
\* additional argument that is a list: the On results of the first
\* responder when the On phase had one, the empty list otherwise.
C27_AfterGetsOnList ==
    \A c \in Connectors :
        (call.first /\ rh[c].preposition = "after" /\ rh[c].pc # "idle") =>
            /\ Len(rh[c].args) = 1
            /\ rh[c].args[1].tag = "list"
            /\ IF "on" \in call.prepositions /\ \E d \in Connectors : FirstWithOn(d)
               THEN \A d \in Connectors : FirstWithOn(d) =>
                      /\ Len(rh[c].args[1].items) = Cardinality(Matching(d, "on"))
                      /\ \A i \in 1..Len(rh[c].args[1].items) :
                            rh[c].args[1].items[i].connector = d
               ELSE rh[c].args[1].items = <<>>

\* ---------------------------------------------------------------------
\* C28: once dispatch_event has raised, no run_event_handlers call of the
\* dispatch is pending or inside a handler.
C28_NoOrphanedHandlers ==
    pc = "raised" =>
        \A c \in Connectors : rh[c].pc \notin {"ready", "handler"}

\* ---------------------------------------------------------------------
\* C21: get_event_handlers(event, preposition) is the registry entries
\* whose event and preposition both match, each once, in registry order,
\* for every connector, event and preposition; the handlers a
\* run_event_handlers call obtained when it was entered are still what a
\* call of get_event_handlers returns now; responds_to_event(event) is
\* true exactly when get_event_handlers returns a handler for the event
\* and one of the three prepositions.
Events == {"measure", "adjust", "describe"}

IsRegistrySelection(hs, c, event, preposition) ==
    /\ \A i, j \in 1..Len(hs) : i < j => hs[i] < hs[j]
    /\ {hs[i] : i \in 1..Len(hs)} =
          {i \in 1..Len(registry[c]) :
              /\ registry[c][i].event = event
              /\ registry[c][i].preposition = preposition}

\* The lookups read the registry only, which no step of a dispatch changes:
\* a caller's own lookups are checked where no dispatch is in flight, the
\* lookups a dispatch makes are checked at every step of it.
C21_LookupExact ==
    /\ pc = "idle" =>
          \A c \in Connectors, e \in Events, p \in AllPrepositions :
              IsRegistrySelection(GetEventHandlers(c, e, p), c, e, p)
    /\ \A c \in Connectors :
          rh[c].pc \in {"handler", "done", "raised"} =>
              /\ rh[c].hs = GetEventHandlers(c, call.event, rh[c].preposition)
              /\ IsRegistrySelection(rh[c].hs, c, call.event, rh[c].preposition)
    /\ pc = "idle" =>
          \A c \in Connectors, e \in Events :
              RespondsToEvent(c, e) <=>
                  \E p \in AllPrepositions : GetEventHandlers(c, e, p) # <<>>

C21_Witness ==
    /\ rh["A"].pc = "done"
    /\ rh["A"].preposition = "on"
    /\ Len(rh["A"].hs) > 1
    /\ rh["B"].pc = "done"
    /\ rh["B"].hs = <<>>
    /\ registry["B"] # <<>>
    /\ RespondsToEvent("A", "adjust")
    /\ GetEventHandlers("A", "adjust", "after") = <<>>
    /\ ~RespondsToEvent("A", "describe")

\* ---------------------------------------------------------------------
\* C25: the registry of every defined type with two connector bases (X, Y)
\* is the whole registry of Y, then the whole registry of X, then the
\* handlers the type declares itself.
C25_BasesInReverse ==
    \A t \in Defined :
        Len(classes[t].bases) = 2 =>
            EventHandlers(t) =
                EventHandlers(classes[t].bases[2])
                    \o EventHandlers(classes[t].bases[1]) \o Declared(t)

C25_Witness ==
    \E t \in Defined :
        /\ Len(classes[t].bases) = 2
        /\ classes[classes[t].bases[1]].bases # <<>>
        /\ EventHandlers(classes[t].bases[2]) # <<>>
        /\ Len(EventHandlers(classes[t].bases[1]))
              > Len(EventHandlers(classes[t].bases[2]))
        /\ Declared(t) # <<>>

\* ---------------------------------------------------------------------
\* C29: no handler occurs twice in the registry of a defined type.
C29_NoDuplicates ==
    \A t \in Defined :
        \A i, j \in 1..Len(EventHandlers(t)) :
            i # j => EventHandlers(t)[i] # EventHandlers(t)[j]

\* C22: defining a connector type with a method whose __event_handler__ is
\* set but is no EventHandler raises TypeError out of the class statement:
\* no usable type results (nothing can derive from it or construct it),
\* and a definition fails only for such a method.
C22_UnexpectedDescriptorRaises ==
    \A t \in DOMAIN classes :
        /\ (\E k \in 1..Len(classes[t].dict) :
               classes[t].dict[k].descriptor = "other")
             <=> classes[t].status = "TypeError"
        /\ classes[t].status = "TypeError" =>
               /\ t \notin Defined
               /\ \A u \in DOMAIN classes :
                      \A i \in 1..Len(classes[u].bases) : classes[u].bases[i] # t
               /\ \A i \in DOMAIN event_bus : event_bus[i].type # t

C22_Witness ==
    \E t, u \in DOMAIN classes :
        /\ t < u
        /\ classes[t].status = "TypeError"
        /\ \E k \in 1..Len(classes[t].dict) : classes[t].dict[k].descriptor = "none"
        /\ classes[u].status = "defined"
        /\ Len(Declared(u)) > 0

\* C23: resolving a string returns the registered connector type whose name
\* or default name it is, returns None when nothing matches, and raises
\* TypeError when the string resolves to a type that is no connector.
NotAType(connector) ==
    /\ ConnectorClassInNamespace(connector) = None
    /\ \A t \in connector_subclasses : ~Identifies(connector, t)
    /\ connector.case = "path" =>
           \/ connector.module \notin Importable
           \/ ModuleAttribute(connector.module, connector.attr) = None

NotAConnector(connector) ==
    \/ ConnectorClassInNamespace(connector) # None
           /\ ~ConnectorClassInNamespace(connector).component
    \/ /\ ConnectorClassInNamespace(connector) = None
       /\ \A t \in connector_subclasses : ~Identifies(connector, t)
       /\ connector.case = "path"
       /\ connector.module \in Importable
       /\ ModuleAttribute(connector.module, connector.attr) # None
       /\ ~ModuleAttribute(connector.module, connector.attr).component

C23_ResolvesByName ==
    [][resolved' # resolved /\ resolved'.input \in Strings =>
        /\ (ConnectorClassInNamespace(resolved'.input) = None
              /\ \E t \in connector_subclasses :
                     Identifies(resolved'.input, t))
            => \E t \in connector_subclasses :
                   /\ Identifies(resolved'.input, t)
                   /\ resolved'.outcome = Returned(ConnectorType(t))
        /\ NotAType(resolved'.input) => resolved'.outcome = Returned(None)
        /\ NotAConnector(resolved'.input)
            => resolved'.outcome = Raised("TypeError")]_vars

\* C30: a type whose definition raised TypeError is no member of
\* _connector_subclasses afterwards and is not what a string resolves to.
C30_FailedTypeNotRegistered ==
    \A t \in DOMAIN classes :
        classes[t].status = "TypeError" =>
            /\ t \notin connector_subclasses
            /\ resolved.outcome # Returned(ConnectorType(t))


====
